---- MODULE Spec2Model ----
(***************************************************************************)
(* A model of the `semester` class-set macros: the token validator         *)
(* (ClassName::parse), the condition analyzer (is_known), the list parser  *)
(* (Classes::parse), the dynamic generator (classes_impl) with the methods *)
(* of the generated DynamicClassSet, and the static generator              *)
(* (static_classes_impl) with its work queue and lookup table.             *)
(*                                                                         *)
(* Strings are sequences of Unicode code points; `as_bytes` is their UTF-8 *)
(* encoding.  Condition expressions are chains of unary syntax nodes that  *)
(* end in a leaf, written as a sequence of node tags; the absent condition *)
(* (Option::None) is the empty sequence.                                   *)
(***************************************************************************)
EXTENDS Integers, Sequences, FiniteSets, TLC

VARIABLES input, macro, pc, error, rows, class_specs, queue, branches,
          fields, artifact, call, iter

vars == <<input, macro, pc, error, rows, class_specs, queue, branches,
          fields, artifact, call, iter>>

\* ---------------------------------------------------------------- bounds
\* Longest input list of the macro invocations that are explored.
MaxLen == 3
\* Longest candidate class string given to the token validator.
MaxStrLen == 2
\* Most wrappers around the leaf of a condition given to the analyzer.
MaxDepth == 2

\* ------------------------------------------------------------ characters
SPACE == 32

\* char::is_whitespace: the code points with the White_Space property.
is_whitespace(c) ==
    \/ c \in 9..13
    \/ c = 32
    \/ c = 133
    \/ c = 160
    \/ c = 5760
    \/ c \in 8192..8202
    \/ c \in {8232, 8233, 8239, 8287, 12288}

\* u8::is_ascii_graphic: U+0021 '!' ..= U+007E '~'.
is_ascii_graphic(b) == b \in 33..126

\* The bytes  b'<', b'>', b'&', b'\'', b'"'.
HtmlUnsafe == {60, 62, 38, 39, 34}

\* The UTF-8 encoding of one code point below U+10000.
Utf8(c) ==
    IF c < 128 THEN <<c>>
    ELSE IF c < 2048 THEN <<192 + (c \div 64), 128 + (c % 64)>>
    ELSE <<224 + (c \div 4096), 128 + ((c \div 64) % 64), 128 + (c % 64)>>

RECURSIVE as_bytes(_)
as_bytes(class) ==
    IF class = <<>> THEN <<>> ELSE Utf8(Head(class)) \o as_bytes(Tail(class))

\* ------------------------------------------------------ ClassName::parse
NoMsg == "ok"
MsgEmpty == "class name must not be empty"
MsgWhitespace == "class name must not include whitespace"
MsgUnsafe == "class name should not include HTML unsafe characters"
MsgPrintable == "class name must be only ascii printable characters"
MsgDuplicate == "duplicate class name"

\* ClassName_parse with the HTML check ahead of the whitespace check.
ClassName_parse_unsafe_first(class) ==
    LET bytes == as_bytes(class) IN
    IF class = <<>> THEN MsgEmpty
    ELSE IF \E i \in 1..Len(bytes) : bytes[i] \in HtmlUnsafe THEN MsgUnsafe
    ELSE IF \E i \in 1..Len(class) : is_whitespace(class[i]) THEN MsgWhitespace
    ELSE IF \E i \in 1..Len(bytes) : ~is_ascii_graphic(bytes[i]) THEN MsgPrintable
    ELSE NoMsg

\* The message of the error ClassName::parse returns for a string, NoMsg
\* when it returns Ok.
ClassName_parse(class) ==
    LET bytes == as_bytes(class) IN
    IF class = <<>> THEN MsgEmpty
    ELSE IF \E i \in 1..Len(class) : is_whitespace(class[i]) THEN MsgWhitespace
    ELSE IF \E i \in 1..Len(bytes) : bytes[i] \in HtmlUnsafe THEN MsgUnsafe
    ELSE IF \E i \in 1..Len(bytes) : ~is_ascii_graphic(bytes[i]) THEN MsgPrintable
    ELSE NoMsg

\* ---------------------------------------------------------------- Known
True == "True"
False == "False"
Maybe == "Maybe"
Never == "Never"

\* is_false that leaves out Never.
is_false_only_false(k) == k = False

is_false(k) == k \in {Never, False}

is_true(k) == k = True

Known_not(k) ==
    CASE k = True -> False
      [] k = False -> True
      [] k = Maybe -> Maybe
      [] k = Never -> Never

\* Option<Expr>::None
None == <<>>

\* Expression nodes.  Wrappers have one sub-expression (the rest of the
\* sequence): "group", "paren", "not" (unary !) and the blocks whose last
\* statement is an expression without semicolon, the sub-expression e:
\*   "block"             { e }
\*   "block_stmts"       { stmt; e }      statements that run to completion
\*   "block_label"       'l: { e }
\*   "block_break_false" 'l: { if c { break 'l false; } e }
\*   "block_break_true"  'l: { if c { break 'l true; } e }
\*   "block_return"      { return; e }
\* Leaves: the boolean literals, the divergent expressions, "block_semi" (a
\* block that is empty or ends in a statement) and "opaque" (any other
\* expression).
Blocks == {"block", "block_stmts", "block_label", "block_break_false",
           "block_break_true", "block_return"}
Wrappers == {"group", "paren", "not"} \cup Blocks
Leaves == {"true", "false", "break", "continue", "return", "block_semi", "opaque"}

RECURSIVE is_known(_)
is_known(expr) ==
    LET node == Head(expr) IN
    CASE node = "true" -> True
      [] node = "false" -> False
      [] node = "group" -> is_known(Tail(expr))
      [] node = "paren" -> is_known(Tail(expr))
      [] node \in Blocks -> is_known(Tail(expr))
      [] node = "block_semi" -> Maybe
      [] node \in {"break", "continue", "return"} -> Never
      [] node = "not" -> Known_not(is_known(Tail(expr)))
      [] OTHER -> Maybe

\* ParsedClassRule::state
state(row) == IF row.condition = None THEN True ELSE is_known(row.condition)

\* -------------------------------------------------------- Classes::parse
NoError == [msg |-> NoMsg, at |-> 0, prev |-> 0]

\* The duplicate check: a map from class string to the entry that inserted
\* it, filled in input order; the first occupied slot is the error.
RECURSIVE DuplicateCheck(_, _, _)
DuplicateCheck(classes, i, class_names) ==
    IF i > Len(classes) THEN NoError
    ELSE IF \E p \in class_names : p.class = classes[i].id
         THEN LET previous == CHOOSE p \in class_names : p.class = classes[i].id
              IN [msg |-> MsgDuplicate, at |-> i, prev |-> previous.literal]
         ELSE DuplicateCheck(classes, i + 1,
                             class_names \cup {[class |-> classes[i].id, literal |-> i]})

\* FoldRows without the filter: an entry whose state is false stays, with
\* its condition.
RECURSIVE FoldRows_no_filter(_)
FoldRows_no_filter(classes) ==
    IF classes = <<>> THEN <<>>
    ELSE LET row == Head(classes)
             st == state(row)
         IN <<[id |-> row.id,
               condition |-> IF is_true(st) THEN None ELSE row.condition]>>
            \o FoldRows_no_filter(Tail(classes))

\* rows: drop the entries whose state is false, strip the condition of the
\* entries whose state is true.
RECURSIVE FoldRows(_)
FoldRows(classes) ==
    IF classes = <<>> THEN <<>>
    ELSE LET row == Head(classes)
             st == state(row)
         IN (IF is_false(st) THEN <<>>
             ELSE <<[id |-> row.id,
                     condition |-> IF is_true(st) THEN None ELSE row.condition]>>)
            \o FoldRows(Tail(classes))

\* Punctuated::parse_terminated parses the entries in order and stops at the
\* first class name that ClassName::parse rejects.
FirstInvalid(classes) ==
    LET bad == {i \in 1..Len(classes) : ClassName_parse(classes[i].id) # NoMsg}
    IN IF bad = {} THEN 0 ELSE CHOOSE i \in bad : \A j \in bad : i <= j

\* Classes_parse with the duplicate check made on the folded rows.
Classes_parse_fold_first(classes) ==
    LET inv == FirstInvalid(classes)
        dup == DuplicateCheck(FoldRows(classes), 1, {})
    IN IF inv # 0
       THEN [error |-> [msg |-> ClassName_parse(classes[inv].id), at |-> inv, prev |-> 0],
             rows |-> <<>>]
       ELSE IF dup.msg # NoMsg
       THEN [error |-> dup, rows |-> <<>>]
       ELSE [error |-> NoError, rows |-> FoldRows(classes)]

Classes_parse(classes) ==
    LET inv == FirstInvalid(classes)
        dup == DuplicateCheck(classes, 1, {})
    IN IF inv # 0
       THEN [error |-> [msg |-> ClassName_parse(classes[inv].id), at |-> inv, prev |-> 0],
             rows |-> <<>>]
       ELSE IF dup.msg # NoMsg
       THEN [error |-> dup, rows |-> <<>>]
       ELSE [error |-> NoError, rows |-> FoldRows(classes)]

\* join that pushes the separator after every string.
RECURSIVE join_trailing(_)
join_trailing(classes) ==
    IF classes = <<>> THEN <<>>
    ELSE classes[1] \o <<SPACE>> \o join_trailing(Tail(classes))

\* -------------------------------------------------------------- fixed_set
\* join_with(' ') / [&str]::join(" "): the strings separated by one space.
RECURSIVE join(_)
join(classes) ==
    IF classes = <<>> THEN <<>>
    ELSE IF Len(classes) = 1 THEN classes[1]
    ELSE classes[1] \o <<SPACE>> \o join(Tail(classes))

RECURSIVE ids_of(_)
ids_of(specs) ==
    IF specs = <<>> THEN <<>> ELSE <<Head(specs).id>> \o ids_of(Tail(specs))

NoArtifact == [class_set |-> <<>>, rendered |-> <<>>]

\* The LocalClasses of fixed_set: as_str() is rendered, class_set() the slice.
fixed_set(classes) == [class_set |-> classes, rendered |-> join(classes)]

\* all_unconditional that is false of the empty list.
all_unconditional_nonempty(specs) ==
    /\ specs # <<>>
    /\ \A i \in 1..Len(specs) : specs[i].condition = None

\* rows.iter().all(|row| row.condition.is_none())
all_unconditional(specs) == \A i \in 1..Len(specs) : specs[i].condition = None

\* ----------------------------------------------------------- classes_impl
\* NamedClassSpec, before coalescing: one spec per row; the conditional rows
\* take the field names condition1, condition2, ... in order.
RECURSIVE named_specs(_, _)
named_specs(specs, next_field) ==
    IF specs = <<>> THEN <<>>
    ELSE LET spec == Head(specs) IN
         IF spec.condition = None
         THEN <<[kind |-> "Fixed", ids |-> <<spec.id>>, rendered |-> spec.id,
                 field |-> 0, expr |-> None]>>
              \o named_specs(Tail(specs), next_field)
         ELSE <<[kind |-> "Conditional", ids |-> <<spec.id>>, rendered |-> <<>>,
                 field |-> next_field, expr |-> spec.condition]>>
              \o named_specs(Tail(specs), next_field + 1)

\* merge_fixed that joins the two rendered strings without the space.
merge_fixed_no_separator(spec1, spec2) ==
    [kind |-> "Fixed", ids |-> spec1.ids \o spec2.ids,
     rendered |-> spec1.rendered \o spec2.rendered,
     field |-> 0, expr |-> None]

\* The closure given to coalesce: two Fixed specs merge.
merge_fixed(spec1, spec2) ==
    [kind |-> "Fixed", ids |-> spec1.ids \o spec2.ids,
     rendered |-> spec1.rendered \o <<SPACE>> \o spec2.rendered,
     field |-> 0, expr |-> None]

\* coalesce_from with a closure that never merges.
RECURSIVE coalesce_from_no_merge(_, _)
coalesce_from_no_merge(last, rest) ==
    IF rest = <<>> THEN <<last>>
    ELSE <<last>> \o coalesce_from_no_merge(Head(rest), Tail(rest))

\* Itertools::coalesce: `last` is the pending item.
RECURSIVE coalesce_from(_, _)
coalesce_from(last, rest) ==
    IF rest = <<>> THEN <<last>>
    ELSE IF last.kind = "Fixed" /\ Head(rest).kind = "Fixed"
         THEN coalesce_from(merge_fixed(last, Head(rest)), Tail(rest))
         ELSE <<last>> \o coalesce_from(Head(rest), Tail(rest))

coalesce(specs) ==
    IF specs = <<>> THEN <<>> ELSE coalesce_from(Head(specs), Tail(specs))

class_specs_of(specs) == coalesce(named_specs(specs, 1))

RECURSIVE max_len(_)
max_len(specs) ==
    IF specs = <<>> THEN 0
    ELSE (IF Head(specs).kind = "Conditional" THEN 1 ELSE Len(Head(specs).ids))
         + max_len(Tail(specs))

\* min_len that counts a conditional class.
min_len_conditional_counted(specs) == max_len(specs)

RECURSIVE min_len(_)
min_len(specs) ==
    IF specs = <<>> THEN 0
    ELSE (IF Head(specs).kind = "Conditional" THEN 0 ELSE Len(Head(specs).ids))
         + min_len(Tail(specs))

\* The number of fields of the generated DynamicClassSet.
RECURSIVE field_count(_)
field_count(specs) ==
    IF specs = <<>> THEN 0
    ELSE (IF Head(specs).kind = "Conditional" THEN 1 ELSE 0) + field_count(Tail(specs))

\* Option<&'static str>
NoneStr == [some |-> FALSE, class |-> <<>>]
SomeStr(class) == [some |-> TRUE, class |-> class]

\* One emission per spec: the token of a conditional spec when its field is
\* set, the pre-rendered string of a fixed spec.
RECURSIVE rendered_class_emissions(_, _)
rendered_class_emissions(specs, self) ==
    IF specs = <<>> THEN <<>>
    ELSE LET spec == Head(specs) IN
         <<IF spec.kind = "Conditional"
           THEN (IF self[spec.field] THEN SomeStr(spec.ids[1]) ELSE NoneStr)
           ELSE SomeStr(spec.rendered)>>
         \o rendered_class_emissions(Tail(specs), self)

RECURSIVE some_all(_)
some_all(classes) ==
    IF classes = <<>> THEN <<>> ELSE <<SomeStr(Head(classes))>> \o some_all(Tail(classes))

\* One emission per token: a fixed spec emits each of its ids.
RECURSIVE iter_class_emissions(_, _)
iter_class_emissions(specs, self) ==
    IF specs = <<>> THEN <<>>
    ELSE LET spec == Head(specs) IN
         (IF spec.kind = "Conditional"
          THEN <<IF self[spec.field] THEN SomeStr(spec.ids[1]) ELSE NoneStr>>
          ELSE some_all(spec.ids))
         \o iter_class_emissions(Tail(specs), self)

\* computed_len that counts a fixed spec as one.
RECURSIVE computed_len_per_spec(_, _)
computed_len_per_spec(specs, self) ==
    IF specs = <<>> THEN 0
    ELSE LET spec == Head(specs) IN
         (IF spec.kind = "Conditional"
          THEN (IF self[spec.field] THEN 1 ELSE 0)
          ELSE 1)
         + computed_len_per_spec(Tail(specs), self)

\* fn len: the sum of the per-spec terms.
RECURSIVE computed_len(_, _)
computed_len(specs, self) ==
    IF specs = <<>> THEN 0
    ELSE LET spec == Head(specs) IN
         (IF spec.kind = "Conditional"
          THEN (IF self[spec.field] THEN 1 ELSE 0)
          ELSE Len(spec.ids))
         + computed_len(Tail(specs), self)

\* Cow<'static, str>
Borrowed(str) == [kind |-> "Borrowed", str |-> str]
Owned(str) == [kind |-> "Owned", str |-> str]

\* render_step without the separator push.
render_step_no_separator(rendered, emission) ==
    IF emission.some
    THEN (IF rendered.str = <<>>
          THEN Borrowed(emission.class)
          ELSE Owned(rendered.str \o emission.class))
    ELSE rendered

\* One unrolled step of fn render.
render_step(rendered, emission) ==
    IF emission.some
    THEN (IF rendered.str = <<>>
          THEN Borrowed(emission.class)
          ELSE Owned(rendered.str \o <<SPACE>> \o emission.class))
    ELSE rendered

\* render_from that takes the string to_mut() on every emission.
RECURSIVE render_from_to_mut(_, _)
render_from_to_mut(emissions, rendered) ==
    IF emissions = <<>> THEN rendered
    ELSE render_from_to_mut(Tail(emissions),
             IF Head(emissions).some
             THEN Owned(render_step(rendered, Head(emissions)).str)
             ELSE rendered)

\* The unrolled steps of fn render over the emissions, in order.
RECURSIVE render_from(_, _)
render_from(emissions, rendered) ==
    IF emissions = <<>> THEN rendered
    ELSE render_from(Tail(emissions), render_step(rendered, Head(emissions)))

\* fn render of the DynamicClassSet: the unrolled steps from Borrowed("").
render(specs, self) ==
    render_from(rendered_class_emissions(specs, self), Borrowed(<<>>))

\* try_as_str_from with the last arm keeping the string instead of returning.
RECURSIVE try_as_str_from_keep(_, _)
try_as_str_from_keep(emissions, rendered) ==
    IF emissions = <<>> THEN SomeStr(rendered)
    ELSE LET emission == Head(emissions) IN
         IF rendered = <<>> /\ emission.some
         THEN try_as_str_from_keep(Tail(emissions), emission.class)
         ELSE try_as_str_from_keep(Tail(emissions), rendered)

\* fn try_as_str: the unrolled matches, with the early return.
RECURSIVE try_as_str_from(_, _)
try_as_str_from(emissions, rendered) ==
    IF emissions = <<>> THEN SomeStr(rendered)
    ELSE LET emission == Head(emissions) IN
         IF rendered = <<>> /\ emission.some
         THEN try_as_str_from(Tail(emissions), emission.class)
         ELSE IF ~emission.some
         THEN try_as_str_from(Tail(emissions), rendered)
         ELSE NoneStr

try_as_str(specs, self) ==
    try_as_str_from(rendered_class_emissions(specs, self), <<>>)

\* index: u8 when max_len < 250, usize otherwise.
iter_idx_type(specs) == IF max_len(specs) < 250 THEN "u8" ELSE "usize"

\* index_incr on an index two bits wide.
index_incr_two_bits(specs, index) == (index + 1) % 4

index_incr(specs, index) ==
    IF iter_idx_type(specs) = "u8" THEN (index + 1) % 256 ELSE index + 1

\* DynamicClassSetIter::next: the unrolled chain of index checks.  The
\* result is the new index and the returned item.
RECURSIVE next_from(_, _, _, _)
next_from(specs, emissions, index_check, index) ==
    IF index_check = Len(emissions) THEN [index |-> index, item |-> NoneStr]
    ELSE IF index = index_check
         THEN LET bumped == index_incr(specs, index) IN
              IF emissions[index_check + 1].some
              THEN [index |-> bumped, item |-> emissions[index_check + 1]]
              ELSE next_from(specs, emissions, index_check + 1, bumped)
         ELSE next_from(specs, emissions, index_check + 1, index)

dynamic_next(specs, self, index) ==
    next_from(specs, iter_class_emissions(specs, self), 0, index)

\* Every item a fresh iter() yields, up to the first None.
saturating_sub(a, b) == IF a > b THEN a - b ELSE 0

\* DynamicClassSetIter::size_hint: the lower bound and the upper bound.
size_hint(specs, index) ==
    [lower |-> saturating_sub(min_len(specs), index),
     upper |-> saturating_sub(max_len(specs), index)]

RECURSIVE dynamic_collect(_, _, _)
dynamic_collect(specs, self, index) ==
    LET step == dynamic_next(specs, self, index) IN
    IF step.item.some
    THEN <<step.item.class>> \o dynamic_collect(specs, self, step.index)
    ELSE <<>>

\* ---------------------------------------------------- static_classes_impl
first_item(specs) == [tail |-> specs, class_set |-> <<>>, condition_set |-> <<>>]

\* expand that records `false` on both variations of a conditional head.
expand_same_flag(item) ==
    IF item.tail # <<>>
    THEN LET head == Head(item.tail)
             tail == Tail(item.tail)
         IN IF head.condition # None
            THEN [push |-> <<[tail |-> tail,
                              class_set |-> item.class_set,
                              condition_set |-> Append(item.condition_set, FALSE)],
                             [tail |-> tail,
                              class_set |-> Append(item.class_set, head.id),
                              condition_set |-> Append(item.condition_set, FALSE)]>>,
                  emit |-> <<>>]
            ELSE [push |-> <<[tail |-> tail,
                              class_set |-> Append(item.class_set, head.id),
                              condition_set |-> item.condition_set]>>,
                  emit |-> <<>>]
    ELSE [push |-> <<>>,
          emit |-> <<[condition_set |-> item.condition_set,
                      class_set |-> item.class_set,
                      rendered |-> join(item.class_set)]>>]

\* expand with the flags of the two variations swapped.
expand_flags_swapped(item) ==
    IF item.tail # <<>>
    THEN LET head == Head(item.tail)
             tail == Tail(item.tail)
         IN IF head.condition # None
            THEN [push |-> <<[tail |-> tail,
                              class_set |-> Append(item.class_set, head.id),
                              condition_set |-> Append(item.condition_set, FALSE)],
                             [tail |-> tail,
                              class_set |-> item.class_set,
                              condition_set |-> Append(item.condition_set, TRUE)]>>,
                  emit |-> <<>>]
            ELSE [push |-> <<[tail |-> tail,
                              class_set |-> Append(item.class_set, head.id),
                              condition_set |-> item.condition_set]>>,
                  emit |-> <<>>]
    ELSE [push |-> <<>>,
          emit |-> <<[condition_set |-> item.condition_set,
                      class_set |-> item.class_set,
                      rendered |-> join(item.class_set)]>>]

\* expand that pushes the popped item back when its head has no condition.
expand_requeue(item) ==
    IF item.tail # <<>>
    THEN LET head == Head(item.tail)
             tail == Tail(item.tail)
         IN IF head.condition # None
            THEN [push |-> <<[tail |-> tail,
                              class_set |-> item.class_set,
                              condition_set |-> Append(item.condition_set, FALSE)],
                             [tail |-> tail,
                              class_set |-> Append(item.class_set, head.id),
                              condition_set |-> Append(item.condition_set, TRUE)]>>,
                  emit |-> <<>>]
            ELSE [push |-> <<item>>, emit |-> <<>>]
    ELSE [push |-> <<>>,
          emit |-> <<[condition_set |-> item.condition_set,
                      class_set |-> item.class_set,
                      rendered |-> join(item.class_set)]>>]

\* One iteration of the while loop on the popped item: the items it pushes
\* to the back of the queue and the table rows it appends to `branches`.
expand(item) ==
    IF item.tail # <<>>
    THEN LET head == Head(item.tail)
             tail == Tail(item.tail)
         IN IF head.condition # None
            THEN [push |-> <<[tail |-> tail,
                              class_set |-> item.class_set,
                              condition_set |-> Append(item.condition_set, FALSE)],
                             [tail |-> tail,
                              class_set |-> Append(item.class_set, head.id),
                              condition_set |-> Append(item.condition_set, TRUE)]>>,
                  emit |-> <<>>]
            ELSE [push |-> <<[tail |-> tail,
                              class_set |-> Append(item.class_set, head.id),
                              condition_set |-> item.condition_set]>>,
                  emit |-> <<>>]
    ELSE [push |-> <<>>,
          emit |-> <<[condition_set |-> item.condition_set,
                      class_set |-> item.class_set,
                      rendered |-> join(item.class_set)]>>]

\* The conditions of the rows that kept one, in order: the match scrutinee.
RECURSIVE conditions(_)
conditions(specs) ==
    IF specs = <<>> THEN <<>>
    ELSE (IF Head(specs).condition # None THEN <<Head(specs).condition>> ELSE <<>>)
         \o conditions(Tail(specs))

\* The whole while loop: the table it leaves in `branches`.
RECURSIVE run_queue(_, _)
run_queue(items, table) ==
    IF items = <<>> THEN table
    ELSE LET step == expand(Head(items)) IN
         run_queue(Tail(items) \o step.push, table \o step.emit)

\* The arms of the generated match that a tuple of outcomes matches.
matching(table, outcomes) ==
    {i \in 1..Len(table) : table[i].condition_set = outcomes}

\* match takes the first arm that matches; StaticClassSet::new keeps the pair.
StaticClassSet_new(table, outcomes) ==
    LET i == CHOOSE i \in matching(table, outcomes) :
                 \A j \in matching(table, outcomes) : i <= j
    IN [class_set |-> table[i].class_set, rendered |-> table[i].rendered]

\* StaticClasses::as_str and StaticClasses::class_set of a static set.
as_str(set) == set.rendered
class_set(set) == set.class_set

\* ------------------------------------------- impl Classes for StaticClasses
static_render(set) == Borrowed(set.rendered)
static_try_as_str(set) == SomeStr(set.rendered)
static_len(set) == Len(set.class_set)

\* slice::Iter::next, copied
static_next(set, index) ==
    IF index < Len(set.class_set)
    THEN [index |-> index + 1, item |-> SomeStr(set.class_set[index + 1])]
    ELSE [index |-> index, item |-> NoneStr]

\* ------------------------------------------------------------- the inputs
\* The class strings of the explored invocations: "a", "b", "c" and the
\* malformed "a b".
Tokens == {<<97>>, <<98>>, <<99>>, <<97, SPACE, 98>>}

\* Their conditions: none, `true`, `false`, an opaque expression, `!false`
\* and `return`.
Conditions == {None, <<"true">>, <<"false">>, <<"opaque">>, <<"not", "false">>, <<"return">>}

Entries == [id : Tokens, condition : Conditions]

SeqsUpTo(S, n) == UNION {[1..m -> S] : m \in 0..n}

Inputs == SeqsUpTo(Entries, MaxLen)

\* The code points the candidate class strings of the validator are made of:
\* NUL, TAB, space, " & ' < >, a, ~, DEL, NEL, NBSP, e-acute, ideographic space.
Alphabet == {0, 9, 32, 34, 38, 39, 60, 62, 97, 126, 127, 133, 160, 233, 12288}

Strings == SeqsUpTo(Alphabet, MaxStrLen)

\* ------------------------------------------------------------------ state
NoCall == [op |-> "none", kind |-> "none", str |-> <<>>, n |-> 0, upper |-> 0]
NoIter == [live |-> FALSE, index |-> 0, item |-> NoneStr, yielded |-> <<>>, done |-> FALSE]

Blank ==
    /\ macro = "none"
    /\ pc = "start"
    /\ error = NoError
    /\ rows = <<>>
    /\ class_specs = <<>>
    /\ queue = <<>>
    /\ branches = <<>>
    /\ fields = <<>>
    /\ artifact = NoArtifact
    /\ call = NoCall
    /\ iter = NoIter

Init ==
    /\ input \in Inputs
    /\ Blank

\* ---------------------------------------------------------------- actions
\* The expansion of classes!(input).
ClassesImpl ==
    /\ pc = "start"
    /\ macro' = "classes"
    /\ LET classes == Classes_parse(input) IN
       IF classes.error.msg # NoMsg
       THEN /\ pc' = "error"
            /\ error' = classes.error
            /\ UNCHANGED <<rows, class_specs, artifact>>
       ELSE IF all_unconditional(classes.rows)
       THEN /\ pc' = "fixed"
            /\ rows' = classes.rows
            /\ artifact' = fixed_set(ids_of(classes.rows))
            /\ UNCHANGED <<error, class_specs>>
       ELSE /\ pc' = "expanded"
            /\ rows' = classes.rows
            /\ class_specs' = class_specs_of(classes.rows)
            /\ UNCHANGED <<error, artifact>>
    /\ UNCHANGED <<input, queue, branches, fields, call, iter>>

\* The generated struct expression: every condition is evaluated and stored
\* in its field.  The outcome of a condition that was kept is not known.
Construct ==
    /\ pc = "expanded"
    /\ \E self \in [1..field_count(class_specs) -> BOOLEAN] : fields' = self
    /\ pc' = "dynamic"
    /\ UNCHANGED <<input, macro, error, rows, class_specs, queue, branches,
                   artifact, call, iter>>

\* The expansion of static_classes!(input), up to the start of the loop.
StaticClassesImpl ==
    /\ pc = "start"
    /\ macro' = "static_classes"
    /\ LET classes == Classes_parse(input) IN
       IF classes.error.msg # NoMsg
       THEN /\ pc' = "error"
            /\ error' = classes.error
            /\ UNCHANGED <<rows, queue, artifact>>
       ELSE IF all_unconditional(classes.rows)
       THEN /\ pc' = "fixed"
            /\ rows' = classes.rows
            /\ artifact' = fixed_set(ids_of(classes.rows))
            /\ UNCHANGED <<error, queue>>
       ELSE /\ pc' = "queue"
            /\ rows' = classes.rows
            /\ queue' = <<first_item(classes.rows)>>
            /\ UNCHANGED <<error, artifact>>
    /\ UNCHANGED <<input, class_specs, branches, fields, call, iter>>

\* One iteration of `while let Some(item) = queue.pop_front()`; the loop is
\* left when the queue is empty.
StaticStep ==
    /\ pc = "queue"
    /\ queue # <<>>
    /\ LET step == expand(Head(queue)) IN
       /\ queue' = Tail(queue) \o step.push
       /\ branches' = branches \o step.emit
       /\ pc' = IF Tail(queue) \o step.push = <<>> THEN "table" ELSE "queue"
    /\ UNCHANGED <<input, macro, error, rows, class_specs, fields, artifact, call, iter>>

\* The generated match: the conditions are evaluated and the arm of their
\* outcomes gives the StaticClassSet.
StaticMatch ==
    /\ pc = "table"
    /\ \E outcomes \in [1..Len(conditions(rows)) -> BOOLEAN] :
          /\ matching(branches, outcomes) # {}
          /\ fields' = outcomes
          /\ artifact' = StaticClassSet_new(branches, outcomes)
    /\ pc' = "static"
    /\ UNCHANGED <<input, macro, error, rows, class_specs, queue, branches, call, iter>>

HasArtifact == pc \in {"fixed", "static", "dynamic"}

\* Classes::render
Render ==
    /\ HasArtifact
    /\ LET cow == IF pc = "dynamic" THEN render(class_specs, fields)
                  ELSE static_render(artifact)
       IN call' = [op |-> "render", kind |-> cow.kind, str |-> cow.str, n |-> 0, upper |-> 0]
    /\ UNCHANGED <<input, macro, pc, error, rows, class_specs, queue, branches,
                   fields, artifact, iter>>

\* Classes::try_as_str
TryAsStr ==
    /\ HasArtifact
    /\ LET opt == IF pc = "dynamic" THEN try_as_str(class_specs, fields)
                  ELSE static_try_as_str(artifact)
       IN call' = [op |-> "try_as_str", kind |-> IF opt.some THEN "Some" ELSE "None",
                   str |-> opt.class, n |-> 0, upper |-> 0]
    /\ UNCHANGED <<input, macro, pc, error, rows, class_specs, queue, branches,
                   fields, artifact, iter>>

\* Classes::len
LenCall ==
    /\ HasArtifact
    /\ call' = [op |-> "len", kind |-> "usize", str |-> <<>>,
                n |-> IF pc = "dynamic" THEN computed_len(class_specs, fields)
                      ELSE static_len(artifact),
                upper |-> 0]
    /\ UNCHANGED <<input, macro, pc, error, rows, class_specs, queue, branches,
                   fields, artifact, iter>>

\* Classes::iter: a new iterator, at index 0.
IterCall ==
    /\ HasArtifact
    /\ iter' = [live |-> TRUE, index |-> 0, item |-> NoneStr, yielded |-> <<>>,
                done |-> FALSE]
    /\ UNCHANGED <<input, macro, pc, error, rows, class_specs, queue, branches,
                   fields, artifact, call>>

\* Iterator::next on the iterator.
NextCall ==
    /\ HasArtifact
    /\ iter.live
    /\ LET step == IF pc = "dynamic" THEN dynamic_next(class_specs, fields, iter.index)
                   ELSE static_next(artifact, iter.index)
       IN iter' = [live |-> TRUE, index |-> step.index, item |-> step.item,
                   yielded |-> IF step.item.some
                               THEN Append(iter.yielded, step.item.class)
                               ELSE iter.yielded,
                   done |-> ~step.item.some]
    /\ UNCHANGED <<input, macro, pc, error, rows, class_specs, queue, branches,
                   fields, artifact, call>>

\* Iterator::size_hint on the iterator of a dynamic set.
SizeHintCall ==
    /\ pc = "dynamic"
    /\ iter.live
    /\ LET hint == size_hint(class_specs, iter.index)
       IN call' = [op |-> "size_hint", kind |-> "usize", str |-> <<>>,
                   n |-> hint.lower, upper |-> hint.upper]
    /\ UNCHANGED <<input, macro, pc, error, rows, class_specs, queue, branches,
                   fields, artifact, iter>>

Next ==
    \/ ClassesImpl
    \/ Construct
    \/ StaticClassesImpl
    \/ StaticStep
    \/ StaticMatch
    \/ Render
    \/ TryAsStr
    \/ LenCall
    \/ IterCall
    \/ NextCall
    \/ SizeHintCall

Spec == Init /\ [][Next]_vars

\* ------------------------------------------------ the validator on its own
InitClassName ==
    /\ input \in {<<[id |-> class, condition |-> None]>> : class \in Strings}
    /\ Blank

\* ClassName::parse on the one candidate string.
ParseClassName ==
    /\ pc = "start"
    /\ error' = [msg |-> ClassName_parse(input[1].id), at |-> 1, prev |-> 0]
    /\ pc' = IF ClassName_parse(input[1].id) = NoMsg THEN "class_name" ELSE "error"
    /\ UNCHANGED <<input, macro, rows, class_specs, queue, branches, fields,
                   artifact, call, iter>>

SpecClassName == InitClassName /\ [][ParseClassName]_vars

\* ------------------------------------------------- reference definitions
\* str::split(' '): the pieces between the spaces of a string.
RECURSIVE Split(_)
Split(str) ==
    IF str = <<>> THEN << <<>> >>
    ELSE LET rest == Split(Tail(str)) IN
         IF Head(str) = SPACE THEN << <<>> >> \o rest
         ELSE << <<Head(str)>> \o Head(rest) >> \o Tail(rest)

\* The tokens of a rendered string: none for "", else the pieces.  A leading,
\* trailing or doubled space shows as an empty piece.
TokensOf(str) == IF str = <<>> THEN <<>> ELSE Split(str)

\* The enabled tokens of a list of class specs in declared order: every spec
\* without condition, and the specs whose condition came out true.  outcomes
\* holds one boolean per spec with a condition, in order.
RECURSIVE Enabled(_, _)
Enabled(specs, outcomes) ==
    IF specs = <<>> THEN <<>>
    ELSE IF Head(specs).condition = None
         THEN <<Head(specs).id>> \o Enabled(Tail(specs), outcomes)
         ELSE (IF Head(outcomes) THEN <<Head(specs).id>> ELSE <<>>)
              \o Enabled(Tail(specs), Tail(outcomes))

AllFalse(outcomes) == \A i \in 1..Len(outcomes) : ~outcomes[i]

\* The number of rows that kept a condition.
LiveCount == Cardinality({i \in 1..Len(rows) : rows[i].condition # None})

RECURSIVE Pow2(_)
Pow2(n) == IF n = 0 THEN 1 ELSE 2 * Pow2(n - 1)

\* ------------------------------------------------------------------- C1
\* C1: the string render() of a dynamic class set returns is the enabled
\* tokens in declared order separated by single spaces, with no leading or
\* trailing space, and an iterator run to its end has yielded exactly those
\* tokens in that order.
C1_RenderIsEnabledJoined ==
    pc = "dynamic" =>
        /\ call.op = "render" => TokensOf(call.str) = Enabled(rows, fields)
        /\ iter.done => iter.yielded = Enabled(rows, fields)

C1_Witness ==
    /\ pc = "dynamic"
    /\ call.op = "render"
    /\ call.kind = "Owned"
    /\ iter.done
    /\ Len(iter.yielded) = 2
    /\ Len(rows) = 3
    /\ \E i \in 1..Len(fields) : ~fields[i]

\* ------------------------------------------------------------------- C2
\* No conditional row lies between two unconditional rows.
OneRun(specs) ==
    ~ \E i, j, k \in 1..Len(specs) :
        /\ i < j
        /\ j < k
        /\ specs[i].condition = None
        /\ specs[j].condition # None
        /\ specs[k].condition = None

\* C2 as stated: whenever every field of a dynamic class set is false,
\* try_as_str() returns the unconditional tokens joined by single spaces,
\* whatever the arrangement of the entries.
C2_AllFalseAlwaysSome ==
    (pc = "dynamic" /\ call.op = "try_as_str" /\ AllFalse(fields)) =>
        /\ call.kind = "Some"
        /\ TokensOf(call.str) = Enabled(rows, fields)

\* C2 as amended: whenever every field of a dynamic class set is false,
\* try_as_str() returns a value exactly when no conditional entry lies
\* between two unconditional entries, and the value is the unconditional
\* tokens joined by single spaces.
C2_AllFalseSomeIffOneRun ==
    (pc = "dynamic" /\ call.op = "try_as_str" /\ AllFalse(fields)) =>
        /\ call.kind = "Some" <=> OneRun(rows)
        /\ call.kind = "Some" => TokensOf(call.str) = Enabled(rows, fields)

C2_Witness ==
    /\ pc = "dynamic"
    /\ call.op = "try_as_str"
    /\ AllFalse(fields)
    /\ call.kind = "Some"
    /\ Len(TokensOf(call.str)) = 2
    /\ Len(rows) = 3

\* ------------------------------------------------------------------- C3
\* The table static_classes_impl builds for a list of rows.
static_table(specs) == run_queue(<<first_item(specs)>>, <<>>)

\* C3: for the same rows and the same outcomes of the conditions, the
\* StaticClassSet selected from the table and the DynamicClassSet have the
\* same rendered string, the same sequence of tokens and the same len().
C3_StaticEqualsDynamic ==
    /\ pc = "static" =>
         LET specs == class_specs_of(rows) IN
         /\ artifact.rendered = render(specs, fields).str
         /\ artifact.class_set = dynamic_collect(specs, fields, 0)
         /\ static_len(artifact) = computed_len(specs, fields)
         /\ call.op = "render" => call.str = render(specs, fields).str
         /\ call.op = "len" => call.n = computed_len(specs, fields)
         /\ iter.done => iter.yielded = dynamic_collect(specs, fields, 0)
    /\ pc = "dynamic" =>
         LET set == StaticClassSet_new(static_table(rows), fields) IN
         /\ call.op = "render" => call.str = set.rendered
         /\ call.op = "len" => call.n = static_len(set)
         /\ iter.done => iter.yielded = set.class_set

C3_Witness ==
    /\ pc = "static"
    /\ call.op = "render"
    /\ iter.done
    /\ Len(fields) = 2
    /\ fields[1]
    /\ ~fields[2]
    /\ Len(artifact.class_set) = 2

\* ------------------------------------------------------------------- C4
\* C4: with k >= 1 conditions kept, the finished table has 2^k rows, every
\* key is a tuple of k booleans, no two rows have the same key, and every
\* tuple of k outcomes matches exactly one row.
C4_TableComplete ==
    pc \in {"table", "static"} =>
        /\ LiveCount >= 1
        /\ Len(branches) = Pow2(LiveCount)
        /\ \A i \in 1..Len(branches) : Len(branches[i].condition_set) = LiveCount
        /\ \A i, j \in 1..Len(branches) :
              i # j => branches[i].condition_set # branches[j].condition_set
        /\ \A outcomes \in [1..LiveCount -> BOOLEAN] :
              Cardinality(matching(branches, outcomes)) = 1

C4_Witness ==
    /\ pc = "table"
    /\ LiveCount = 2
    /\ Len(rows) = 3
    /\ Len(branches) = 4

\* ------------------------------------------------------------------- C5
\* C5: a value returned by try_as_str() of a dynamic class set is the
\* string render() returns for the same fields.
C5_TryAsStrIsRender ==
    (pc = "dynamic" /\ call.op = "try_as_str" /\ call.kind = "Some") =>
        call.str = render(class_specs, fields).str

C5_Witness ==
    /\ pc = "dynamic"
    /\ call.op = "try_as_str"
    /\ call.kind = "Some"
    /\ call.str # <<>>
    /\ Len(rows) = 3
    /\ \E i \in 1..Len(fields) : fields[i]

\* ------------------------------------------------------------------- C6
\* The number of groups that contribute output: the runs of consecutive
\* unconditional rows and the conditional rows whose outcome is true.
RECURSIVE Contributions(_, _, _)
Contributions(specs, outcomes, in_run) ==
    IF specs = <<>> THEN 0
    ELSE IF Head(specs).condition = None
         THEN (IF in_run THEN 0 ELSE 1) + Contributions(Tail(specs), outcomes, TRUE)
         ELSE (IF Head(outcomes) THEN 1 ELSE 0)
              + Contributions(Tail(specs), Tail(outcomes), FALSE)

\* C6: render() of a dynamic class set is Borrowed when at most one group
\* contributes and Owned when two or more do; it is Borrowed exactly when
\* try_as_str() returns a value.
C6_BorrowedIffOneGroup ==
    (pc = "dynamic" /\ call.op = "render") =>
        /\ call.kind = "Borrowed" <=> Contributions(rows, fields, FALSE) <= 1
        /\ call.kind = "Owned" <=> Contributions(rows, fields, FALSE) >= 2
        /\ call.kind = "Borrowed" <=> try_as_str(class_specs, fields).some

C6_Witness ==
    /\ pc = "dynamic"
    /\ call.op = "render"
    /\ call.kind = "Borrowed"
    /\ Contributions(rows, fields, FALSE) = 1
    /\ Len(TokensOf(call.str)) = 2

\* ------------------------------------------------------------------- C7
\* A class token: non-empty, of ASCII printable non-space characters other
\* than the five HTML-unsafe ones.
ValidToken(class) ==
    /\ class # <<>>
    /\ \A i \in 1..Len(class) : class[i] \in (33..126) \ {34, 38, 39, 60, 62}

AllValid(classes) == \A i \in 1..Len(classes) : ValidToken(classes[i].id)

\* The positions whose token already occurs at an earlier position.
Repeats(classes) ==
    {j \in 1..Len(classes) : \E i \in 1..(j - 1) : classes[i].id = classes[j].id}

Least(S) == CHOOSE x \in S : \A y \in S : x <= y

\* C7: a list of class tokens in which a token occurs twice is rejected by
\* both macros with the duplicate error, at the first position that repeats
\* an earlier token and naming the first occurrence of that token, whatever
\* the conditions of the entries are.
C7_DuplicateRejected ==
    (pc # "start" /\ AllValid(input) /\ Repeats(input) # {}) =>
        /\ pc = "error"
        /\ error.msg = MsgDuplicate
        /\ error.at = Least(Repeats(input))
        /\ error.prev = Least({i \in 1..Len(input) : input[i].id = input[error.at].id})

C7_Witness ==
    /\ pc = "error"
    /\ error.msg = MsgDuplicate
    /\ error.prev = 1
    /\ error.at = 3
    /\ input[1].condition = <<"false">>
    /\ input[3].condition = <<"return">>

\* ------------------------------------------------------------------- C8
\* The White_Space code points.
WhiteSpace ==
    (9..13) \cup {32, 133, 160, 5760} \cup (8192..8202)
    \cup {8232, 8233, 8239, 8287, 12288}

\* The error of the first check that matches, in the order empty,
\* whitespace, HTML-unsafe, not printable.
FirstFailedCheck(class) ==
    IF class = <<>> THEN MsgEmpty
    ELSE IF \E i \in 1..Len(class) : class[i] \in WhiteSpace THEN MsgWhitespace
    ELSE IF \E i \in 1..Len(class) : class[i] \in {34, 38, 39, 60, 62} THEN MsgUnsafe
    ELSE IF \E i \in 1..Len(class) : class[i] \notin 33..126 THEN MsgPrintable
    ELSE NoMsg

\* C8: ClassName::parse accepts a string exactly when it is a class token,
\* and otherwise returns the one error of the first check that matches.
C8_ValidatorOrder ==
    pc # "start" =>
        /\ pc = "class_name" <=> ValidToken(input[1].id)
        /\ pc = "class_name" <=> error.msg = NoMsg
        /\ error.msg = FirstFailedCheck(input[1].id)

C8_Witness ==
    /\ pc = "error"
    /\ error.msg = MsgWhitespace
    /\ Len(input[1].id) = 2
    /\ input[1].id[1] = 60
    /\ input[1].id[2] = 160

\* ------------------------------------------------------------------- C9
\* The input with every entry classified True declared without condition
\* and every entry classified False left out.
RECURSIVE ManualFix(_)
ManualFix(classes) ==
    IF classes = <<>> THEN <<>>
    ELSE LET row == Head(classes)
             known == IF row.condition = None THEN Maybe ELSE is_known(row.condition)
         IN (IF known = False THEN <<>>
             ELSE IF known = True THEN <<[id |-> row.id, condition |-> None]>>
             ELSE <<row>>)
            \o ManualFix(Tail(classes))

\* The string the artifact of a macro renders for an input list and the
\* outcomes of the conditions it keeps.
RenderedOf(which, classes, outcomes) ==
    LET specs == Classes_parse(classes).rows IN
    IF all_unconditional(specs) THEN fixed_set(ids_of(specs)).rendered
    ELSE IF which = "classes" THEN render(class_specs_of(specs), outcomes).str
    ELSE StaticClassSet_new(static_table(specs), outcomes).rendered

\* ["a", "b": true, "c": false]
FoldExample ==
    <<[id |-> <<97>>, condition |-> None],
      [id |-> <<98>>, condition |-> <<"true">>],
      [id |-> <<99>>, condition |-> <<"false">>]>>

\* C9: for every outcome of the remaining conditions, the artifact renders
\* the string that the same macro renders for the input with the entries
\* classified True declared without condition and the entries classified
\* False left out; ["a", "b": true, "c": false] renders "a b".
C9_FoldSound ==
    (HasArtifact /\ call.op = "render") =>
        /\ call.str = RenderedOf(macro, ManualFix(input), fields)
        /\ input = FoldExample => call.str = <<97, SPACE, 98>>

C9_Witness ==
    /\ pc = "dynamic"
    /\ call.op = "render"
    /\ Len(input) = 3
    /\ \E i, j, k \in 1..3 :
          /\ input[i].condition = <<"not", "false">>
          /\ input[j].condition = <<"false">>
          /\ input[k].condition = <<"opaque">>
    /\ Len(TokensOf(call.str)) = 2

\* ------------------------------------------------------------------ C10
\* The string the artifact renders.
RenderedStr ==
    IF pc = "dynamic" THEN render(class_specs, fields).str
    ELSE static_render(artifact).str

\* C10: len() of a class set is the number of enabled classes, the number of
\* items an iterator run to its end has yielded, and the number of tokens in
\* the rendered string; each token of a coalesced run counts.
C10_LenIsEnabledCount ==
    (HasArtifact /\ call.op = "len") =>
        /\ call.n = Len(Enabled(rows, fields))
        /\ call.n = Len(TokensOf(RenderedStr))
        /\ iter.done => call.n = Len(iter.yielded)

C10_Witness ==
    /\ pc = "dynamic"
    /\ call.op = "len"
    /\ call.n = 3
    /\ iter.done
    /\ Len(class_specs) = 2
    /\ class_specs[1].kind = "Fixed"
    /\ Len(class_specs[1].ids) = 2

\* ------------------------------------------------------------------ C11
\* C11: render(), iter() and len() of a dynamic class set over the coalesced
\* groups are those over the same rows with every unconditional row kept as
\* a group of its own.
C11_CoalesceInvisible ==
    pc = "dynamic" =>
        LET plain == named_specs(rows, 1) IN
        /\ call.op = "render" => call.str = render(plain, fields).str
        /\ call.op = "len" => call.n = computed_len(plain, fields)
        /\ iter.done => iter.yielded = dynamic_collect(plain, fields, 0)

C11_Witness ==
    /\ pc = "dynamic"
    /\ call.op = "render"
    /\ iter.done
    /\ Len(rows) = 3
    /\ Len(class_specs) = 2
    /\ class_specs[2].kind = "Fixed"
    /\ fields[1]

\* ------------------------------------------------------------------ C12
\* The classification of an entry: True without condition.
Classified(entry) ==
    IF entry.condition = None THEN True ELSE is_known(entry.condition)

\* The tokens of the entries classified True, in declared order.
RECURSIVE Surviving(_)
Surviving(classes) ==
    IF classes = <<>> THEN <<>>
    ELSE (IF Classified(Head(classes)) = True THEN <<Head(classes).id>> ELSE <<>>)
         \o Surviving(Tail(classes))

NoLive(classes) == \A i \in 1..Len(classes) : Classified(classes[i]) # Maybe

\* C12: when no entry of an accepted input keeps a condition, either macro
\* returns the fixed set; its class_set() is the surviving tokens in declared
\* order, whichever macro built it, and its try_as_str() returns as_str().
C12_FixedShortCircuit ==
    (pc \notin {"start", "error"} /\ NoLive(input)) =>
        /\ pc = "fixed"
        /\ class_set(artifact) = Surviving(input)
        /\ TokensOf(as_str(artifact)) = Surviving(input)
        /\ call.op = "try_as_str" => (call.kind = "Some" /\ call.str = as_str(artifact))

C12_Witness ==
    /\ pc = "fixed"
    /\ macro = "static_classes"
    /\ call.op = "try_as_str"
    /\ Len(input) = 3
    /\ Len(class_set(artifact)) = 2
    /\ \E i \in 1..3 : input[i].condition = <<"return">>
    /\ \E i \in 1..3 : input[i].condition = <<"not", "false">>

\* ------------------------------------------------------------------ C13
NoRepeat(classes) ==
    \A i, j \in 1..Len(classes) : i # j => classes[i] # classes[j]

\* The preconditions of StaticClassSet::new.
NewPreconditions(set, string) ==
    /\ TokensOf(string) = set
    /\ NoRepeat(set)
    /\ \A i \in 1..Len(set) : ValidToken(set[i])

\* C13: the fixed set, every row of the table and the set selected from it
\* satisfy the preconditions of StaticClassSet::new: the string is the slice
\* joined by single spaces, the slice has no duplicate, every token is a
\* class token.
C13_StaticPreconditions ==
    /\ pc \in {"fixed", "static"} =>
          NewPreconditions(class_set(artifact), as_str(artifact))
    /\ \A i \in 1..Len(branches) :
          NewPreconditions(branches[i].class_set, branches[i].rendered)

C13_Witness ==
    /\ pc = "static"
    /\ Len(branches) = 4
    /\ Len(class_set(artifact)) = 3

\* ------------------------------------------------- the analyzer on its own
RECURSIVE ExprsOfDepth(_)
ExprsOfDepth(d) ==
    IF d = 0 THEN {<<leaf>> : leaf \in Leaves}
    ELSE {<<wrapper>> \o expr : wrapper \in Wrappers, expr \in ExprsOfDepth(d - 1)}

Exprs == UNION {ExprsOfDepth(d) : d \in 0..MaxDepth}

InitKnown ==
    /\ input \in {<<[id |-> <<97>>, condition |-> expr]>> : expr \in Exprs}
    /\ Blank

\* is_known on the condition of the one entry.
IsKnownCall ==
    /\ pc = "start"
    /\ call' = [op |-> "is_known", kind |-> is_known(input[1].condition),
                str |-> <<>>, n |-> 0, upper |-> 0]
    /\ pc' = "known"
    /\ UNCHANGED <<input, macro, error, rows, class_specs, queue, branches, fields,
                   artifact, iter>>

SpecKnown == InitKnown /\ [][IsKnownCall]_vars

\* ------------------------------------------------------------------ C14
Negated(outcome) ==
    IF outcome = "true" THEN "false"
    ELSE IF outcome = "false" THEN "true"
    ELSE outcome

\* The outcomes the evaluation of an expression can have over all runs:
\* "true", "false", or "diverges" when it yields no value.
RECURSIVE Outcomes(_)
Outcomes(expr) ==
    LET node == Head(expr) IN
    CASE node = "true" -> {"true"}
      [] node = "false" -> {"false"}
      [] node = "opaque" -> {"true", "false", "diverges"}
      [] node \in {"break", "continue", "return", "block_semi"} -> {"diverges"}
      [] node \in {"group", "paren", "block", "block_stmts", "block_label"} ->
            Outcomes(Tail(expr))
      [] node = "not" -> {Negated(outcome) : outcome \in Outcomes(Tail(expr))}
      [] node = "block_break_false" -> {"false"} \cup Outcomes(Tail(expr))
      [] node = "block_break_true" -> {"true"} \cup Outcomes(Tail(expr))
      [] node = "block_return" -> {"diverges"}

\* C14: is_known returns True only for an expression that always evaluates
\* to true and False only for one that always evaluates to false.
C14_AnalyzerSound ==
    call.op = "is_known" =>
        /\ call.kind = True => Outcomes(input[1].condition) = {"true"}
        /\ call.kind = False => Outcomes(input[1].condition) = {"false"}

\* The expressions without a break out of a labelled block and without a
\* divergent statement before the trailing expression.
RECURSIVE NoEarlyExit(_)
NoEarlyExit(expr) ==
    /\ Head(expr) \notin {"block_break_false", "block_break_true", "block_return"}
    /\ Len(expr) > 1 => NoEarlyExit(Tail(expr))

\* On those expressions the analyzer is sound.
SoundWithoutEarlyExit ==
    (call.op = "is_known" /\ NoEarlyExit(input[1].condition)) =>
        /\ call.kind = True => Outcomes(input[1].condition) = {"true"}
        /\ call.kind = False => Outcomes(input[1].condition) = {"false"}

\* ------------------------------------------------------------------ C15
\* The positions of the entries that are not classified False or Never.
Kept(classes) ==
    {i \in 1..Len(classes) : Classified(classes[i]) \notin {False, Never}}

\* The n-th kept position, in increasing order.
KeptAt(classes, n) ==
    CHOOSE i \in Kept(classes) :
        Cardinality({j \in Kept(classes) : j <= i}) = n

\* C15: the rows of an accepted input are its entries without those
\* classified False or Never, in the original order; a row whose entry is
\* classified True has no condition, and a condition that is present is the
\* entry's expression, unchanged, and classifies as Maybe.
C15_BuilderOutput ==
    pc \notin {"start", "error"} =>
        /\ Len(rows) = Cardinality(Kept(input))
        /\ \A n \in 1..Len(rows) :
              LET entry == input[KeptAt(input, n)] IN
              /\ rows[n].id = entry.id
              /\ Classified(entry) = True => rows[n].condition = None
              /\ rows[n].condition # None =>
                    /\ rows[n].condition = entry.condition
                    /\ is_known(rows[n].condition) = Maybe

C15_Witness ==
    /\ pc = "expanded"
    /\ Len(input) = 3
    /\ Len(rows) = 2
    /\ input[1].condition = <<"not", "false">>
    /\ input[2].condition = <<"return">>
    /\ input[3].condition = <<"opaque">>
    /\ rows[1].condition = None
    /\ rows[2].condition = <<"opaque">>

\* ------------------------------------------- the static generator on its own
NextQueue ==
    \/ StaticClassesImpl
    \/ StaticStep

\* The loop runs on while the queue has an item: an iteration that can be
\* taken is taken.
SpecQueue == Init /\ [][NextQueue]_vars /\ WF_vars(StaticStep)

\* ------------------------------------------------------------------ C16
IsSuffix(part, whole) ==
    \E k \in 0..Len(whole) : part = SubSeq(whole, k + 1, Len(whole))

\* Every item in the queue holds a suffix of the rows.
QueueWithinRows == \A i \in 1..Len(queue) : IsSuffix(queue[i].tail, rows)

\* One iteration: the front item leaves the queue; with an empty suffix it
\* adds one row to the table and pushes nothing, otherwise it adds no row
\* and pushes one or two items whose suffix is one entry shorter.
IterationShape ==
    LET item == Head(queue)
        pushed == SubSeq(queue', Len(queue), Len(queue'))
    IN /\ Len(queue') >= Len(queue) - 1
       /\ SubSeq(queue', 1, Len(queue) - 1) = Tail(queue)
       /\ IF item.tail = <<>>
          THEN /\ pushed = <<>>
               /\ Len(branches') = Len(branches) + 1
          ELSE /\ Len(pushed) \in {1, 2}
               /\ \A p \in 1..Len(pushed) : pushed[p].tail = Tail(item.tail)
               /\ branches' = branches

\* C16: every item of the queue holds a suffix of the rows, every iteration
\* has the shape above, and the loop, once entered, is left with an empty
\* queue.
C16_LoopTerminates ==
    /\ [](pc = "queue" => QueueWithinRows)
    /\ [][pc = "queue" => IterationShape]_vars
    /\ (pc = "queue") ~> (pc = "table" /\ queue = <<>>)

C16_Witness ==
    /\ pc = "table"
    /\ queue = <<>>
    /\ Len(rows) = 3
    /\ Len(branches) = 4

\* -------------------------------------------------- the iterator on its own
\* The largest number of entries of the sets explored here.
MaxPositions == 12

IterSizes == 0..MaxPositions

\* A class string for each position: two lower-case letters.
class_at(i) == <<97 + (i % 26), 97 + (i \div 26)>>

\* n entries: all with an opaque condition, or every third one.
entries_of(n, shape) ==
    [i \in 1..n |->
        [id |-> class_at(i),
         condition |-> IF shape = "conditional" \/ i % 3 = 0
                       THEN <<"opaque">> ELSE None]]

\* The outcomes of k conditions: none true, all true, every other one true.
outcomes_of(k, pattern) ==
    [i \in 1..k |-> IF pattern = "none" THEN FALSE
                    ELSE IF pattern = "all" THEN TRUE
                    ELSE i % 2 = 1]

\* The state after classes!(entries) has been expanded and constructed.
InitIter ==
    \E n \in IterSizes, shape \in {"conditional", "runs"},
       pattern \in {"none", "all", "alternate"} :
        LET classes == Classes_parse(entries_of(n, shape)) IN
        /\ input = entries_of(n, shape)
        /\ macro = "classes"
        /\ error = NoError
        /\ rows = classes.rows
        /\ queue = <<>>
        /\ branches = <<>>
        /\ call = NoCall
        /\ iter = NoIter
        /\ IF all_unconditional(classes.rows)
           THEN /\ pc = "fixed"
                /\ class_specs = <<>>
                /\ fields = <<>>
                /\ artifact = fixed_set(ids_of(classes.rows))
           ELSE /\ pc = "dynamic"
                /\ class_specs = class_specs_of(classes.rows)
                /\ fields = outcomes_of(field_count(class_specs_of(classes.rows)), pattern)
                /\ artifact = NoArtifact

NextIter ==
    \/ IterCall
    \/ NextCall
    \/ SizeHintCall

SpecIter == InitIter /\ [][NextIter]_vars

\* ------------------------------------------------------------------ C17
IsPrefix(part, whole) ==
    /\ Len(part) <= Len(whole)
    /\ part = SubSeq(whole, 1, Len(part))

\* The index of a dynamic iterator is at most the number of token positions
\* and below 2^8 when that number is below 250; what it has yielded is a
\* prefix of the enabled tokens, all of them once it has returned None, and
\* then the index is the number of positions.
IndexWithinPositions ==
    (pc = "dynamic" /\ iter.live) =>
        /\ iter.index <= Len(rows)
        /\ Len(rows) < 250 => iter.index < 256
        /\ IsPrefix(iter.yielded, Enabled(rows, fields))
        /\ iter.done => (iter.index = Len(rows) /\ iter.yielded = Enabled(rows, fields))

\* C17: the index of a dynamic iterator stays within the token positions and
\* never wraps; a next() after one that returned None returns None; iter()
\* gives an iterator at the first token.
C17_IndexBounded ==
    /\ []IndexWithinPositions
    /\ [][(pc = "dynamic" /\ NextCall) =>
             /\ iter'.index >= iter.index
             /\ iter.done => (iter'.done /\ ~iter'.item.some)]_vars
    /\ [][(pc = "dynamic" /\ IterCall) =>
             (iter'.index = 0 /\ iter'.yielded = <<>> /\ ~iter'.done)]_vars

C17_Witness ==
    /\ pc = "dynamic"
    /\ iter.done
    /\ Len(rows) = MaxPositions
    /\ Len(class_specs) < Len(rows)
    /\ iter.index = Len(rows)
    /\ iter_idx_type(class_specs) = "u8"
    /\ Len(iter.yielded) > 4
    /\ Len(iter.yielded) < Len(rows)

\* ------------------------------------------------------------------ C18
\* The items the iterator will still yield: what next() returns until None.
StillToYield == dynamic_collect(class_specs, fields, iter.index)

\* C18: a size_hint() on a dynamic iterator returns a lower bound that is at
\* most, and an upper bound that is at least, the number of items the iterator
\* will still yield.
C18_SizeHintBrackets ==
    [][SizeHintCall =>
          /\ call'.n <= Len(StillToYield)
          /\ Len(StillToYield) <= call'.upper]_vars

\* The hint in hand is the hint of the iterator as it stands, mid-way through
\* a set that has a false condition before an unconditional class.
C18_Witness ==
    /\ pc = "dynamic"
    /\ call.op = "size_hint"
    /\ iter.live
    /\ iter.index = 1
    /\ ~iter.done
    /\ call = [NoCall EXCEPT !.op = "size_hint", !.kind = "usize",
                             !.n = size_hint(class_specs, iter.index).lower,
                             !.upper = size_hint(class_specs, iter.index).upper]
    /\ call.n = 1
    /\ call.upper = 2
    /\ Len(StillToYield) = 1
    /\ Len(rows) = 3

====
